---- MODULE Spec2Model ----
(***************************************************************************)
(* A model of the Graph-ARG retrieval pipeline: the Neo4j chunk store      *)
(* (vector_store.py), the two Gemini clients with their retry loops        *)
(* (embeddings.py, response_generator.py) and the orchestrator             *)
(* (rag_orchestrator.py).                                                  *)
(***************************************************************************)
EXTENDS Integers, Sequences, FiniteSets, TLC

VARIABLES
    nodes,        \* the (:Chunk) nodes of the database, in creation order
    last,         \* the last completed call on VectorStore: its arguments and result
    max_retries,  \* the max_retries both Gemini clients were constructed with
    call,         \* the last generate call on a Gemini client: what it did, its outcome
    rag,          \* the operation RAGOrchestrator is running or ran last
    threads,      \* the handlers running at the same time, each in its thread
    schema        \* the schema of the database, and the VectorStore set up on it

storeVars == <<nodes, last>>
retryVars == <<max_retries, call>>

vars == <<nodes, last, max_retries, call, rag, threads, schema>>

(***************************************************************************)
(* Bounds and input sets                                                   *)
(***************************************************************************)
MaxNodes == 2       \* cap on the number of nodes the store is grown to
MaxK == 2           \* largest top_k tried
MaxRetries == 3     \* largest max_retries a client is constructed with
MaxChunks == 2      \* most chunks extract_chunks yields for a document
MaxSetups == 2      \* most times a VectorStore is constructed on the database
MaxParagraphs == 3  \* most paragraphs the converter gives for a document
JitterSteps == 2    \* random.uniform(0, 1) is drawn in steps of 1/JitterSteps s

\* f"{Path(pdf_path).stem}_chunk_{chunk_id}"
ChunkId(stem, chunk_id) == <<stem, "_chunk_", chunk_id>>

ChunkIds == {ChunkId("a", 0), ChunkId("a", 1), ChunkId("b", 0)}
Sources == {"a.pdf", "b.pdf"}
\* (source, chunk_index) pairs tried on store_chunk
Origins == {<<"a.pdf", 0>>, <<"b.pdf", 1>>}
Texts == {<<"P", "a", "r">>, <<"R", "o", "m", "e">>}
\* embeddings the store is fed, and the query vectors tried on it
Vectors == {<<1, 0>>, <<0, 1>>}
Queries == Vectors \cup {<<1, 1>>}
\* (text, embedding) pairs tried on store_chunk
Embedded == {<<<<"P", "a", "r">>, <<1, 0>>>>, <<<<"R", "o", "m", "e">>, <<0, 1>>>>}

\* The questions asked: the empty one, one of blanks, and one with words.
Questions == {<<>>, <<" ", " ">>, <<"W", "h", "o", " ", "?">>}

\* str(metadata) of a chunk whose text is t: the text's length.
Metadata(t) == [length |-> Len(t)]

None == "None"

Min(a, b) == IF a <= b THEN a ELSE b

(***************************************************************************)
(* VectorStore                                                             *)
(***************************************************************************)
\* One (:Chunk) node with the properties store_chunk SETs.
Node(id, text, source, chunk_index, embedding, metadata) ==
    [id |-> id, text |-> text, source |-> source, chunk_index |-> chunk_index,
     embedding |-> embedding, metadata |-> metadata]

HasId(ns, id) == \E i \in 1..Len(ns) : ns[i].id = id

\* The place of the node with this id in creation order.
NodeIndex(ns, id) == CHOOSE i \in 1..Len(ns) : ns[i].id = id

\* A store_chunk that CREATEs a node on every call instead of MERGEing on id.
CreateNode(ns, n) == Append(ns, n)

\* A store_chunk whose statement SETs the embedding only on a node that is
\* there, leaving it the text, source and position of an earlier write.
MergeVectorOnly(ns, n) ==
    IF HasId(ns, n.id)
    THEN [i \in 1..Len(ns) |-> IF ns[i].id = n.id
                                THEN [ns[i] EXCEPT !.embedding = n.embedding]
                                ELSE ns[i]]
    ELSE Append(ns, n)

\* A store_chunk that replaces the chunks of the source of n by n.
ReplaceSource(ns, n) ==
    Append(SelectSeq(ns, LAMBDA x : x.source # n.source), n)

\* MERGE (c:Chunk {id: $id}) SET c.text = ..., c.embedding = ..., ...
\* the node that has the id gets every property overwritten in place; when
\* there is none, a new node is created.
MergeNode(ns, n) ==
    IF HasId(ns, n.id)
    THEN [i \in 1..Len(ns) |-> IF ns[i].id = n.id THEN n ELSE ns[i]]
    ELSE Append(ns, n)

\* zip(chunks, embeddings) of store_chunks_batch, one store_chunk per pair.
RECURSIVE StoreAll(_, _, _)
StoreAll(ns, chunks, embeddings) ==
    IF chunks = <<>> \/ embeddings = <<>>
    THEN ns
    ELSE StoreAll(MergeNode(ns, Node(Head(chunks).id, Head(chunks).text,
                                     Head(chunks).source, Head(chunks).chunk_index,
                                     Head(embeddings), Head(chunks).metadata)),
                  Tail(chunks), Tail(embeddings))

\* reduce(dot = 0.0, i IN range(0, size(c.embedding)-1) |
\*        dot + c.embedding[i] * $query_embedding[i])
RECURSIVE DotUpTo(_, _, _)
DotUpTo(a, b, n) == IF n = 0 THEN 0 ELSE DotUpTo(a, b, n - 1) + a[n] * b[n]

Similarity(embedding, query_embedding) ==
    DotUpTo(embedding, query_embedding, Len(embedding))

\* A sort that puts the lowest similarity first.
AscendingOrder(ns, q, p) ==
    \A i \in 1..(Len(ns) - 1) :
        Similarity(ns[p[i]].embedding, q) <= Similarity(ns[p[i + 1]].embedding, q)

\* ORDER BY similarity DESC: p lists the rows highest similarity first.  The
\* query names no second sort key, so rows of equal similarity come in an
\* order the database is free to choose.
DescendingOrder(ns, q, p) ==
    \A i \in 1..(Len(ns) - 1) :
        Similarity(ns[p[i]].embedding, q) >= Similarity(ns[p[i + 1]].embedding, q)

Permutations1(n) ==
    {p \in [1..n -> 1..n] : \A i, j \in 1..n : p[i] = p[j] => i = j}

\* A query without its LIMIT clause.
NoLimit(rows, top_k) == rows

\* LIMIT $top_k
Limit(rows, top_k) == SubSeq(rows, 1, Min(top_k, Len(rows)))

\* The record search_similar builds from one result row.
Row(n, q) ==
    [id |-> n.id, text |-> n.text, source |-> n.source,
     chunk_index |-> n.chunk_index, similarity |-> Similarity(n.embedding, q)]

\* Every list search_similar can return on the store ns.
SearchResults(ns, q, top_k) ==
    {Limit([i \in 1..Len(ns) |-> Row(ns[p[i]], q)], top_k) :
        p \in {p \in Permutations1(Len(ns)) : DescendingOrder(ns, q, p)}}

\* A delete that removes the first chunk of the source only.
RECURSIVE DeleteFirstOfSource(_, _)
DeleteFirstOfSource(ns, source) ==
    IF ns = <<>> THEN <<>>
    ELSE IF Head(ns).source = source
         THEN Tail(ns)
         ELSE <<Head(ns)>> \o DeleteFirstOfSource(Tail(ns), source)

\* MATCH (c:Chunk) RETURN count(c) AS count
get_chunk_count(ns) == Len(ns)

\* MATCH (c:Chunk {source: $source}) DELETE c
RECURSIVE DeleteSource(_, _)
DeleteSource(ns, source) ==
    IF ns = <<>> THEN <<>>
    ELSE IF Head(ns).source = source
         THEN DeleteSource(Tail(ns), source)
         ELSE <<Head(ns)>> \o DeleteSource(Tail(ns), source)

\* The characters of the source names, and their code points.
SourceChars ==
    [s \in Sources |-> IF s = "a.pdf" THEN <<"a", ".", "p", "d", "f">>
                                       ELSE <<"b", ".", "p", "d", "f">>]
Ord(c) ==
    CASE c = "." -> 46
      [] c = "a" -> 97
      [] c = "b" -> 98
      [] c = "d" -> 100
      [] c = "f" -> 102
      [] c = "p" -> 112

\* The order of ORDER BY on strings: by the first character that differs, a
\* proper prefix before the longer string.
RECURSIVE LexLess(_, _)
LexLess(a, b) ==
    IF b = <<>> THEN FALSE
    ELSE IF a = <<>> THEN TRUE
    ELSE IF Ord(Head(a)) # Ord(Head(b)) THEN Ord(Head(a)) < Ord(Head(b))
    ELSE LexLess(Tail(a), Tail(b))

\* A listing that has neither DISTINCT nor ORDER BY: the source of every
\* node, in creation order.
SourcesAsStored(ns) == [i \in 1..Len(ns) |-> ns[i].source]

\* MATCH (c:Chunk) RETURN DISTINCT c.source AS source ORDER BY source
AllSources(ns) ==
    LET distinct == {ns[i].source : i \in 1..Len(ns)}
    IN  CHOOSE l \in [1..Cardinality(distinct) -> distinct] :
            \A i \in 1..(Cardinality(distinct) - 1) :
                LexLess(SourceChars[l[i]], SourceChars[l[i + 1]])

store_chunk(chunk_id, text, embedding, source, chunk_index, metadata) ==
    /\ HasId(nodes, chunk_id) \/ Len(nodes) < MaxNodes
    /\ nodes' = MergeNode(nodes, Node(chunk_id, text, source, chunk_index,
                                      embedding, metadata))
    /\ last' = [op |-> "store_chunk",
                chunk |-> Node(chunk_id, text, source, chunk_index, embedding, metadata),
                existed |-> HasId(nodes, chunk_id), count_before |-> Len(nodes),
                old_text |-> IF HasId(nodes, chunk_id)
                             THEN nodes[NodeIndex(nodes, chunk_id)].text ELSE None,
                ret |-> None]
    /\ UNCHANGED <<retryVars, rag, threads, schema>>

\* The chunk dictionaries handed to store_chunks_batch.
Chunk(id, text, source, chunk_index, metadata) ==
    [id |-> id, text |-> text, source |-> source, chunk_index |-> chunk_index,
     metadata |-> metadata]

store_chunks_batch(chunks, embeddings) ==
    /\ Len(StoreAll(nodes, chunks, embeddings)) <= MaxNodes
    /\ nodes' = StoreAll(nodes, chunks, embeddings)
    /\ last' = [op |-> "store_chunks_batch", chunks |-> chunks,
                embeddings |-> embeddings, count_before |-> Len(nodes),
                new_ids |-> {chunks[i].id : i \in 1..Min(Len(chunks), Len(embeddings))}
                            \ {nodes[i].id : i \in 1..Len(nodes)},
                ret |-> None]
    /\ UNCHANGED <<retryVars, rag, threads, schema>>

search_similar(query_embedding, top_k) ==
    /\ \E r \in SearchResults(nodes, query_embedding, top_k) :
          last' = [op |-> "search_similar", query_embedding |-> query_embedding,
                   top_k |-> top_k, ret |-> r]
    /\ UNCHANGED <<nodes, retryVars, rag, threads, schema>>

delete_by_source(source) ==
    /\ nodes' = DeleteSource(nodes, source)
    /\ last' = [op |-> "delete_by_source", source |-> source, before |-> nodes,
                ret |-> None]
    /\ UNCHANGED <<retryVars, rag, threads, schema>>

get_all_sources ==
    /\ last' = [op |-> "get_all_sources", ret |-> AllSources(nodes)]
    /\ UNCHANGED <<nodes, retryVars, rag, threads, schema>>

(***************************************************************************)
(* Specification of the store: any client calls in any order               *)
(***************************************************************************)
\* What Config sets max_retries to.
ConfigMaxRetries == 3

NoCall == [client |-> None, status |-> "idle"]

\* RAGOrchestrator between operations.
NoOperation == [op |-> None, status |-> "idle"]

\* The database after VectorStore was constructed on it once, the vector
\* index created.
SchemaReady ==
    [objects |-> {"chunk_id", "chunk_embedding"}, vector_support |-> TRUE,
     setups |-> 1, constructed |-> TRUE, index_failed |-> FALSE]

\* No handler running beside the one operation.
NoThreads == [writers |-> <<>>, reader |-> [pc |-> "idle"], log |-> <<>>]

StoreInit ==
    /\ nodes = <<>>
    /\ last = [op |-> "init", ret |-> None]
    /\ max_retries = ConfigMaxRetries
    /\ call = NoCall
    /\ rag = NoOperation
    /\ threads = NoThreads
    /\ schema = SchemaReady

\* The chunk lists tried on store_chunks_batch: chunks of the document a.pdf,
\* also one that names the same id twice.
BatchChunks ==
    {<<>>,
     <<Chunk(ChunkId("a", 0), <<"P", "a", "r">>, "a.pdf", 0, Metadata(<<"P", "a", "r">>))>>,
     <<Chunk(ChunkId("a", 0), <<"P", "a", "r">>, "a.pdf", 0, Metadata(<<"P", "a", "r">>)),
       Chunk(ChunkId("a", 1), <<"R", "o", "m", "e">>, "a.pdf", 1,
             Metadata(<<"R", "o", "m", "e">>))>>,
     <<Chunk(ChunkId("a", 0), <<"P", "a", "r">>, "a.pdf", 0, Metadata(<<"P", "a", "r">>)),
       Chunk(ChunkId("a", 0), <<"R", "o", "m", "e">>, "a.pdf", 0,
             Metadata(<<"R", "o", "m", "e">>))>>}

BatchEmbeddings(n) == [1..n -> Vectors]

StoreChunkCall ==
    \E id \in ChunkIds, te \in Embedded, o \in Origins :
        store_chunk(id, te[1], te[2], o[1], o[2], Metadata(te[1]))

StoreBatchCall ==
    \E cs \in BatchChunks :
        \E es \in BatchEmbeddings(Len(cs)) : store_chunks_batch(cs, es)

SearchCall ==
    \E q \in Queries, k \in 1..MaxK : search_similar(q, k)

DeleteCall ==
    \E s \in Sources : delete_by_source(s)

StoreNext ==
    \/ StoreChunkCall
    \/ StoreBatchCall
    \/ SearchCall
    \/ DeleteCall
    \/ get_all_sources

StoreSpec == StoreInit /\ [][StoreNext]_vars

(***************************************************************************)
(* EmbeddingGenerator and ResponseGenerator: generate and its retry loop   *)
(***************************************************************************)
\* What the upstream service answers to one request: a value, or an error e
\* with the text str(e).  status is what the service meant by the error.
Ok(v) == [ok |-> TRUE, value |-> v]
Err(status, str) == [ok |-> FALSE, status |-> status, str |-> str]

\* "429 RE": ResourceExhausted;  "Quota": quota exceeded;
\* "400 bad": a malformed prompt;  "403 quota": the API requires a quota
\* project, which is not set (a permission error).
UpstreamErrors ==
    {Err("rate_limit", <<"4", "2", "9", " ", "R", "E">>),
     Err("rate_limit", <<"Q", "u", "o", "t", "a">>),
     Err("malformed_prompt", <<"4", "0", "0", " ", "b", "a", "d">>),
     Err("permission", <<"4", "0", "3", " ", "q", "u", "o", "t", "a">>)}

Answers == {"answer"}
EmbedResponses == {Ok(v) : v \in Vectors} \cup UpstreamErrors
GenerateResponses == {Ok(a) : a \in Answers} \cup UpstreamErrors
Jitters == 0..(JitterSteps - 1)

\* sub in s
Contains(s, sub) ==
    \E i \in 1..(Len(s) - Len(sub) + 1) : SubSeq(s, i, i + Len(sub) - 1) = sub

\* str.lower() on the letters the error texts use.
LowerChar(c) ==
    CASE c = "Q" -> "q"
      [] c = "R" -> "r"
      [] c = "E" -> "e"
      [] OTHER -> c

Lower(s) == [i \in 1..Len(s) |-> LowerChar(s[i])]

\* "429" in str(e) or "quota" in str(e).lower(), in EmbeddingGenerator.generate
EmbedIsRateLimit(e) ==
    \/ Contains(e.str, <<"4", "2", "9">>)
    \/ Contains(Lower(e.str), <<"q", "u", "o", "t", "a">>)

\* "429" in str(e) or "quota" in str(e).lower(), in ResponseGenerator.generate
GenerateIsRateLimit(e) ==
    \/ Contains(e.str, <<"4", "2", "9">>)
    \/ Contains(Lower(e.str), <<"q", "u", "o", "t", "a">>)

\* A delay that grows linearly: 2 * attempt in place of 2 ** attempt.
LinearWaitTime(attempt, j) == (2 * attempt) * JitterSteps + j

\* (2 ** attempt) + random.uniform(0, 1) in EmbeddingGenerator.generate, in
\* units of 1/JitterSteps seconds, the jitter being j/JitterSteps.
EmbedWaitTime(attempt, j) == (2 ^ attempt) * JitterSteps + j

\* (2 ** attempt) + random.uniform(0, 1) in ResponseGenerator.generate
GenerateWaitTime(attempt, j) == (2 ^ attempt) * JitterSteps + j

\* A retry test that gives up one attempt early.
EmbedGivesUpEarly(attempt, mr) == attempt < mr - 2

\* attempt < self.max_retries - 1 in EmbeddingGenerator.generate
EmbedCanRetry(attempt, mr) == attempt < mr - 1

\* attempt < self.max_retries - 1 in ResponseGenerator.generate
GenerateCanRetry(attempt, mr) == attempt < mr - 1

RateLimitExceeded == [exception |-> "Rate limit exceeded. Please wait and try again."]

\* The outcome of a generate call, with what it did on the way: the responses
\* it got, one per upstream request, and the sleeps it made.
Outcome(status, value, responses, waits) ==
    [status |-> status, value |-> value, responses |-> responses, waits |-> waits]

\* A loop that makes its first attempt whatever max_retries is.
AttemptsAtLeastOnce(attempt, mr) == attempt >= mr /\ attempt >= 1

\* range(self.max_retries) has no value left for attempt: the for loop is
\* over, and with it the function body.
RangeExhausted(attempt, mr) == attempt >= mr

\* for attempt in range(self.max_retries): ... of EmbeddingGenerator.generate,
\* from the given attempt on: every outcome it can have, over what the
\* upstream answers to each request and what random.uniform gives.
RECURSIVE EmbedLoop(_, _, _, _)
EmbedLoop(attempt, mr, responses, waits) ==
    IF RangeExhausted(attempt, mr)
    THEN {Outcome("returned", None, responses, waits)}
    ELSE UNION {
        LET seen == Append(responses, r)
        IN  IF r.ok
            THEN {Outcome("returned", r.value, seen, waits)}
            ELSE IF EmbedIsRateLimit(r)
            THEN IF EmbedCanRetry(attempt, mr)
                 THEN UNION {EmbedLoop(attempt + 1, mr, seen,
                                       Append(waits, EmbedWaitTime(attempt, j))) :
                             j \in Jitters}
                 ELSE {Outcome("raised", RateLimitExceeded, seen, waits)}
            ELSE {Outcome("raised", r, seen, waits)} :
        r \in EmbedResponses}

\* for attempt in range(self.max_retries): ... of ResponseGenerator.generate
RECURSIVE GenerateLoop(_, _, _, _)
GenerateLoop(attempt, mr, responses, waits) ==
    IF RangeExhausted(attempt, mr)
    THEN {Outcome("returned", None, responses, waits)}
    ELSE UNION {
        LET seen == Append(responses, r)
        IN  IF r.ok
            THEN {Outcome("returned", r.value, seen, waits)}
            ELSE IF GenerateIsRateLimit(r)
            THEN IF GenerateCanRetry(attempt, mr)
                 THEN UNION {GenerateLoop(attempt + 1, mr, seen,
                                          Append(waits, GenerateWaitTime(attempt, j))) :
                             j \in Jitters}
                 ELSE {Outcome("raised", RateLimitExceeded, seen, waits)}
            ELSE {Outcome("raised", r, seen, waits)} :
        r \in GenerateResponses}

\* Every outcome EmbeddingGenerator.generate can have with max_retries = mr.
EmbedOutcomes(mr) == EmbedLoop(0, mr, <<>>, <<>>)

\* Every outcome ResponseGenerator.generate can have with max_retries = mr.
GenerateOutcomes(mr) == GenerateLoop(0, mr, <<>>, <<>>)

\* The outcomes of both clients for every max_retries the model constructs
\* them with, as tables.
Budgets == -1..(IF MaxRetries > ConfigMaxRetries THEN MaxRetries ELSE ConfigMaxRetries)
EmbedOutcomesOf == [mr \in Budgets |-> EmbedOutcomes(mr)]
GenerateOutcomesOf == [mr \in Budgets |-> GenerateOutcomes(mr)]

\* What the caller of generate sees of an outcome.
Result(o) == [status |-> o.status, value |-> o.value]
EmbedResultsOf == [mr \in Budgets |-> {Result(o) : o \in EmbedOutcomesOf[mr]}]
GenerateResultsOf == [mr \in Budgets |-> {Result(o) : o \in GenerateOutcomesOf[mr]}]

\* EmbeddingGenerator.generate(text, task_type)
embed_generate ==
    /\ call.status = "idle"
    /\ \E o \in EmbedOutcomesOf[max_retries] :
          call' = [client |-> "embedding", status |-> o.status, value |-> o.value,
                   responses |-> o.responses, waits |-> o.waits]
    /\ UNCHANGED <<storeVars, max_retries, rag, threads, schema>>

\* f"{i}" of an integer
Str(n) == ToString(n)

\* The string of the characters chars.
RECURSIVE Text(_)
Text(chars) == IF chars = <<>> THEN "" ELSE Head(chars) \o Text(Tail(chars))

\* f"[Context {i} - Source: {chunk['source']}, Chunk {chunk['chunk_index']}]\n"
\* f"{chunk['text']}\n": a string is the list of the pieces it is made of.
ContextPart(i, chunk) ==
    <<"[Context ", Str(i), " - Source: ", chunk.source, ", Chunk ",
      Str(chunk.chunk_index), "]\n", Text(chunk.text), "\n">>

\* sep.join(parts)
RECURSIVE Join(_, _)
Join(sep, parts) ==
    IF parts = <<>> THEN <<>>
    ELSE IF Len(parts) = 1 THEN parts[1]
    ELSE parts[1] \o <<sep>> \o Join(sep, Tail(parts))

NoContext == <<"No relevant context found.">>

\* A context whose blocks are numbered from 0.
BuildContextFromZero(chunks) ==
    IF chunks = <<>>
    THEN NoContext
    ELSE Join("\n", [i \in 1..Len(chunks) |-> ContextPart(i - 1, chunks[i])])

\* ResponseGenerator._build_context
_build_context(chunks) ==
    IF chunks = <<>>
    THEN NoContext
    ELSE Join("\n", [i \in 1..Len(chunks) |-> ContextPart(i, chunks[i])])

PromptHead ==
    "You are a helpful AI assistant answering questions based on provided context.\n\nContext Information:\n"
PromptInstructions ==
    "\n\nInstructions:\n- Answer the question using ONLY the information provided in the context above\n- Be accurate and specific\n- If the context doesn't contain enough information to fully answer the question, acknowledge this\n- Cite which context sources you used in your answer\n- Keep your answer clear and concise\n\nAnswer:"

\* ResponseGenerator._create_prompt
_create_prompt(query, context) ==
    <<PromptHead>> \o context \o <<"\n\nUser Question: ", Text(query), PromptInstructions>>

\* The rows handed to generate as context_chunks.
ContextRows ==
    {[id |-> ChunkId("a", 0), text |-> <<"P", "a", "r">>, source |-> "a.pdf",
      chunk_index |-> 0, similarity |-> 1],
     [id |-> ChunkId("b", 1), text |-> <<"R", "o", "m", "e">>, source |-> "b.pdf",
      chunk_index |-> 1, similarity |-> 0]}
ContextChunkLists == UNION {[1..n -> ContextRows] : n \in 0..MaxK}

\* ResponseGenerator.generate(query, context_chunks)
response_generate(query, context_chunks) ==
    /\ call.status = "idle"
    /\ LET context == _build_context(context_chunks)
           prompt == _create_prompt(query, context)
       IN  \E o \in GenerateOutcomesOf[max_retries] :
              call' = [client |-> "response", status |-> o.status, value |-> o.value,
                       responses |-> o.responses, waits |-> o.waits,
                       query |-> query, context_chunks |-> context_chunks,
                       context |-> context, prompt |-> prompt]
    /\ UNCHANGED <<storeVars, max_retries, rag, threads, schema>>

\* The caller takes the outcome; the client keeps no state between calls.
TakeOutcome ==
    /\ call.status # "idle"
    /\ call' = NoCall
    /\ UNCHANGED <<storeVars, max_retries, rag, threads, schema>>

(***************************************************************************)
(* Specification of the clients: generate calls under any upstream         *)
(***************************************************************************)
RetryInit ==
    /\ nodes = <<>>
    /\ last = [op |-> "init", ret |-> None]
    /\ max_retries \in -1..MaxRetries
    /\ call = NoCall
    /\ rag = NoOperation
    /\ threads = NoThreads
    /\ schema = SchemaReady

RetryNext ==
    \/ embed_generate
    \/ \E q \in Questions, cs \in ContextChunkLists : response_generate(q, cs)
    \/ TakeOutcome

RetrySpec == RetryInit /\ [][RetryNext]_vars

(***************************************************************************)
(* RAGOrchestrator                                                         *)
(***************************************************************************)
\* What Config sets top_k_results to.
ConfigTopK == 5

\* The documents uploaded: Path(pdf_path).stem and Path(pdf_path).name.
PdfPaths == {[stem |-> "a", name |-> "a.pdf"]}
\* The values of the top_k slider of the UI (minimum=1).
SliderValues == 1..MaxK
\* top_k: <<>> for None, <<k>> for the number k
TopKs == {<<>>} \cup {<<k>> : k \in 0..MaxK}

\* The characters str.strip() removes, of those the texts use.
Whitespace == {" "}

\* str.lstrip()
RECURSIVE LStrip(_)
LStrip(s) == IF s # <<>> /\ Head(s) \in Whitespace THEN LStrip(Tail(s)) ELSE s

\* str.rstrip()
RECURSIVE RStrip(_)
RStrip(s) ==
    IF s # <<>> /\ s[Len(s)] \in Whitespace THEN RStrip(SubSeq(s, 1, Len(s) - 1)) ELSE s

\* str.strip()
Strip(s) == RStrip(LStrip(s))

\* What Config sets chunk_min_length to.
ConfigChunkMinLength == 20

\* A text of n characters c.
Paragraph(c, n) == [i \in 1..n |-> c]

\* A text of n characters c with a blank before and after it.
Padded(c, n) == <<" ">> \o Paragraph(c, n) \o <<" ">>

\* if text and len(text) > self.min_chunk_length:
Keeps(text, min_chunk_length) ==
    text # <<>> /\ Len(text) > min_chunk_length

\* for para in paragraphs: text = para.strip(); the texts that are kept.
RECURSIVE KeptTexts(_, _)
KeptTexts(paragraphs, min_chunk_length) ==
    IF paragraphs = <<>> THEN <<>>
    ELSE (IF Keeps(Strip(Head(paragraphs)), min_chunk_length)
          THEN <<Strip(Head(paragraphs))>> ELSE <<>>)
         \o KeptTexts(Tail(paragraphs), min_chunk_length)

\* The paragraphs of a.pdf that the extraction keeps with the configured
\* minimum, as the converter gives them.
KeptParagraphs ==
    {Paragraph("P", ConfigChunkMinLength + 1), Padded("R", ConfigChunkMinLength + 2)}

\* The chunk list extract_chunks builds from the paragraphs it keeps.
ExtractedChunks(pdf_path, paragraphs) ==
    [i \in 1..Len(paragraphs) |->
        Chunk(ChunkId(pdf_path.stem, i - 1), paragraphs[i], pdf_path.name, i - 1,
              Metadata(paragraphs[i]))]

\* What extract_chunks can come to: an exception of the converter, or the
\* paragraphs it keeps.
Extractions ==
    {[raised |-> TRUE, paragraphs |-> <<>>]} \cup
    {[raised |-> FALSE, paragraphs |-> ps] :
        ps \in UNION {[1..n -> KeptParagraphs] : n \in 0..MaxChunks}}

RECURSIVE SumLength(_)
SumLength(chunks) ==
    IF chunks = <<>> THEN 0
    ELSE Head(chunks).metadata.length + SumLength(Tail(chunks))

\* round(total / n, 2) in hundredths: to the nearest, a tie to the even one.
Round2(total, n) ==
    LET q == (total * 100) \div n
        r == (total * 100) % n
    IN  IF 2 * r > n \/ (2 * r = n /\ q % 2 = 1) THEN q + 1 ELSE q

\* PDFProcessor.get_chunk_statistics
get_chunk_statistics(chunks) ==
    IF chunks = <<>>
    THEN [total_chunks |-> 0, total_chars |-> 0, avg_chunk_size |-> 0]
    ELSE [total_chunks |-> Len(chunks),
          total_chars |-> SumLength(chunks),
          avg_chunk_size |-> Round2(SumLength(chunks), Len(chunks)),
          min_chunk_size |-> CHOOSE m \in {chunks[i].metadata.length : i \in 1..Len(chunks)} :
                                \A i \in 1..Len(chunks) : m <= chunks[i].metadata.length,
          max_chunk_size |-> CHOOSE m \in {chunks[i].metadata.length : i \in 1..Len(chunks)} :
                                \A i \in 1..Len(chunks) : m >= chunks[i].metadata.length]

\* The names process_and_store_pdf has bound when it reaches its last return:
\* the assignment to stats is commented out.
IngestLocals == {"self", "pdf_path", "chunks", "embeddings", "i", "chunk", "embedding"}

NameError(name) == [exception |-> "NameError", name |-> name]
StorageError == [exception |-> "neo4j error"]
ExtractionError == [exception |-> "extraction error"]

\* A finished operation: what the caller gets.
Returned(r, ret) == [r EXCEPT !.status = "returned", !.ret = ret]
Raised(r, failure, exc) ==
    [r EXCEPT !.status = "raised", !.failure = failure, !.ret = exc]

\* The last statement of process_and_store_pdf: return {..., "statistics": stats}
IngestReturn(r) ==
    IF "stats" \in IngestLocals
    THEN Returned(r, [success |-> TRUE,
                      message |-> <<"Successfully processed", Len(r.chunks), "chunks">>,
                      chunks_processed |-> Len(r.chunks),
                      statistics |-> get_chunk_statistics(r.chunks)])
    ELSE Raised(r, "summary", NameError("stats"))

\* A query that goes on to the response generator when the search found
\* nothing, and answers with the fallback when it found chunks.
ShortCircuitOnResults(relevant_chunks) == relevant_chunks # <<>>

\* A query that always goes on to the response generator.
NeverShortCircuit(relevant_chunks) == FALSE

\* if not relevant_chunks:
ShortCircuit(relevant_chunks) == relevant_chunks = <<>>

FallbackAnswer ==
    "I couldn't find any relevant information in the knowledge base to answer your question."

\* What kind of failure an exception out of a generate call is.
FailureOf(client, exc) ==
    IF exc = RateLimitExceeded THEN "rate_limit" ELSE client

Running(op, pc) == rag.op = op /\ rag.status = "running" /\ rag.pc = pc

\* An ingestion that goes on to the embedding step with no chunk.
ChunksAlwaysPresent(chunks) == FALSE

\* if not chunks:
NoChunks(chunks) == chunks = <<>>

\* process_and_store_pdf up to the end of step 1: extract_chunks raises, or
\* yields no chunk, or yields the chunks to embed.
process_and_store_pdf(pdf_path) ==
    /\ rag.status # "running"
    /\ \E extracted \in Extractions :
          LET r == [op |-> "process_and_store_pdf", status |-> "running",
                    pc |-> "embed", pdf_path |-> pdf_path,
                    chunks |-> ExtractedChunks(pdf_path,
                                               KeptTexts(extracted.paragraphs,
                                                         ConfigChunkMinLength)),
                    nodes_before |-> nodes,
                    requests |-> <<>>, embeddings |-> <<>>, stored |-> 0,
                    failure |-> None, ret |-> None,
                    trace |-> <<"extract_chunks">>]
          IN  rag' = IF extracted.raised
                     THEN Raised(r, "extraction", ExtractionError)
                     ELSE IF NoChunks(r.chunks)
                     THEN Returned(r, [success |-> FALSE,
                                       message |-> "No chunks extracted from PDF",
                                       chunks_processed |-> 0])
                     ELSE r
    /\ UNCHANGED <<storeVars, retryVars, threads, schema>>

\* A loop that is left for the storage step once a chunk is embedded.
FirstEmbedded(embeddings, chunks) == Len(embeddings) >= 1

\* for i, chunk in enumerate(chunks, 1): is over when every chunk has its
\* embedding appended.
AllEmbedded(embeddings, chunks) == Len(embeddings) = Len(chunks)

\* Step 2, one turn of the loop: the embedding of the next chunk.
ingest_embed ==
    /\ Running("process_and_store_pdf", "embed")
    /\ \E o \in EmbedResultsOf[max_retries] :
          LET r == [rag EXCEPT !.trace = Append(@, "generate_document_embedding"),
                               !.requests = Append(@, rag.chunks[Len(rag.embeddings) + 1].text)]
          IN  rag' = IF o.status = "raised"
                     THEN Raised(r, FailureOf("embedding", o.value), o.value)
                     ELSE [r EXCEPT !.embeddings = Append(@, o.value),
                                    !.pc = IF AllEmbedded(Append(r.embeddings, o.value),
                                                          r.chunks)
                                           THEN "store" ELSE "embed"]
    /\ UNCHANGED <<storeVars, retryVars, threads, schema>>

\* A batch that pairs the chunks with the embeddings in reverse order.
ZipReversed(chunks, embeddings) ==
    [i \in 1..Min(Len(chunks), Len(embeddings)) |->
        [chunk |-> chunks[i],
         embedding |-> embeddings[Min(Len(chunks), Len(embeddings)) + 1 - i]]]

\* zip(chunks, embeddings): the pairs store_chunks_batch goes through.
Zip(chunks, embeddings) ==
    [i \in 1..Min(Len(chunks), Len(embeddings)) |->
        [chunk |-> chunks[i], embedding |-> embeddings[i]]]

\* Step 3, one turn of the loop of store_chunks_batch: the store_chunk of the
\* next pair, which the database may refuse; after the last one the summary
\* is returned.
ingest_store ==
    /\ Running("process_and_store_pdf", "store")
    /\ LET k == rag.stored + 1
           pair == Zip(rag.chunks, rag.embeddings)[k]
           r == [rag EXCEPT !.trace = Append(@, "store_chunk")]
       IN  \/ /\ rag' = Raised(r, "storage", StorageError)
              /\ UNCHANGED nodes
           \/ /\ nodes' = MergeNode(nodes, Node(pair.chunk.id, pair.chunk.text,
                                                pair.chunk.source,
                                                pair.chunk.chunk_index,
                                                pair.embedding,
                                                pair.chunk.metadata))
              /\ rag' = IF k = Min(Len(rag.chunks), Len(rag.embeddings))
                        THEN IngestReturn([r EXCEPT !.stored = k])
                        ELSE [r EXCEPT !.stored = k]
    /\ UNCHANGED <<last, retryVars, threads, schema>>

\* not question or not question.strip(), in query_rag_system of app.py
IsBlank(question) == question = <<>> \/ Strip(question) = <<>>

\* A query that starts from the chunks the query before it retrieved.
StartQueryFromLastChunks(question, top_k, handler) ==
    [op |-> "query", status |-> "running", pc |-> "embed",
     handler |-> handler, question |-> question, top_k_arg |-> top_k,
     top_k |-> IF top_k = <<>> THEN ConfigTopK ELSE top_k[1],
     query_embedding |-> None,
     relevant_chunks |-> IF "relevant_chunks" \in DOMAIN rag
                         THEN rag.relevant_chunks ELSE <<>>,
     failure |-> None, ret |-> None, trace |-> <<>>]

\* RAGOrchestrator.query as it starts, up to the call of
\* generate_query_embedding; handler is the UI handler it was called from,
\* None for a call of the API.
StartQuery(question, top_k, handler) ==
    [op |-> "query", status |-> "running", pc |-> "embed",
     handler |-> handler, question |-> question, top_k_arg |-> top_k,
     top_k |-> IF top_k = <<>> THEN ConfigTopK ELSE top_k[1],
     query_embedding |-> None, relevant_chunks |-> <<>>,
     failure |-> None, ret |-> None, trace |-> <<>>]

\* query up to the call of generate_query_embedding.
query(question, top_k) ==
    /\ rag.status # "running"
    /\ rag' = StartQuery(question, top_k, None)
    /\ UNCHANGED <<storeVars, retryVars, threads, schema>>

\* query_rag_system of app.py: a blank question is answered with a message
\* at once, any other is passed to rag.query with top_k=int(top_k).
query_rag_system(question, top_k) ==
    /\ rag.status # "running"
    /\ rag' = IF IsBlank(question)
              THEN [op |-> "query_rag_system", status |-> "returned",
                    handler |-> "query_rag_system", question |-> question,
                    failure |-> "validation",
                    ret |-> <<"Please enter a question", "">>, trace |-> <<>>]
              ELSE StartQuery(question, <<top_k>>, "query_rag_system")
    /\ UNCHANGED <<storeVars, retryVars, threads, schema>>

\* Step 1: the embedding of the question.
query_embed ==
    /\ Running("query", "embed")
    /\ \E o \in EmbedResultsOf[max_retries] :
          LET r == [rag EXCEPT !.trace = Append(@, "generate_query_embedding")]
          IN  rag' = IF o.status = "raised"
                     THEN Raised(r, FailureOf("embedding", o.value), o.value)
                     ELSE [r EXCEPT !.query_embedding = o.value, !.pc = "search"]
    /\ UNCHANGED <<storeVars, retryVars, threads, schema>>

\* Step 2: search_similar, and the fallback answer when it finds nothing.
query_search ==
    /\ Running("query", "search")
    /\ LET r == [rag EXCEPT !.trace = Append(@, "search_similar")]
       IN  \/ rag' = Raised(r, "storage", StorageError)
           \/ \E found \in SearchResults(nodes, rag.query_embedding, rag.top_k) :
                 rag' = IF ShortCircuit(found)
                        THEN Returned(r, [question |-> rag.question,
                                          answer |-> FallbackAnswer,
                                          sources |-> <<>>])
                        ELSE [r EXCEPT !.relevant_chunks = found, !.pc = "generate"]
    /\ UNCHANGED <<storeVars, retryVars, threads, schema>>

\* Step 3: the answer of the response generator.
query_generate ==
    /\ Running("query", "generate")
    /\ \E o \in GenerateResultsOf[max_retries] :
          LET r == [rag EXCEPT !.trace = Append(@, "response_generate")]
          IN  rag' = IF o.status = "raised"
                     THEN Raised(r, FailureOf("generation", o.value), o.value)
                     ELSE Returned(r, [question |-> rag.question, answer |-> o.value,
                                       sources |-> rag.relevant_chunks])
    /\ UNCHANGED <<storeVars, retryVars, threads, schema>>

\* get_database_info: get_chunk_count, then get_all_sources, on the store;
\* either call may fail in the database.
get_database_info ==
    /\ rag.status # "running"
    /\ LET r == [op |-> "get_database_info", status |-> "running",
                 failure |-> None, ret |-> None, trace |-> <<>>]
           counted == [r EXCEPT !.trace = <<"get_chunk_count">>]
           listed == [r EXCEPT !.trace = <<"get_chunk_count", "get_all_sources">>]
       IN  \/ rag' = Raised(counted, "storage", StorageError)
           \/ rag' = Raised(listed, "storage", StorageError)
           \/ rag' = Returned(listed,
                              [total_chunks |-> get_chunk_count(nodes),
                               total_documents |-> Len(AllSources(nodes)),
                               documents |-> AllSources(nodes)])
    /\ UNCHANGED <<storeVars, retryVars, threads, schema>>

\* delete_document: delete_by_source on the store, which may fail in the
\* database.
delete_document(source) ==
    /\ rag.status # "running"
    /\ LET r == [op |-> "delete_document", status |-> "running", source |-> source,
                 failure |-> None, ret |-> None, trace |-> <<"delete_by_source">>]
       IN  \/ /\ rag' = Raised(r, "storage", StorageError)
              /\ UNCHANGED nodes
           \/ /\ rag' = Returned(r, None)
              /\ nodes' = DeleteSource(nodes, source)
    /\ UNCHANGED <<last, retryVars, threads, schema>>

(***************************************************************************)
(* Specification of the orchestrator: uploads and queries, one at a time   *)
(***************************************************************************)
RagInit ==
    /\ nodes = <<>>
    /\ last = [op |-> "init", ret |-> None]
    /\ max_retries = ConfigMaxRetries
    /\ call = NoCall
    /\ rag = NoOperation
    /\ threads = NoThreads
    /\ schema = SchemaReady

RagNext ==
    \/ \E p \in PdfPaths : process_and_store_pdf(p)
    \/ ingest_embed
    \/ ingest_store
    \/ \E q \in Questions, k \in TopKs : query(q, k)
    \/ \E q \in Questions, k \in SliderValues : query_rag_system(q, k)
    \/ query_embed
    \/ query_search
    \/ query_generate
    \/ get_database_info
    \/ \E s \in Sources : delete_document(s)

RagSpec == RagInit /\ [][RagNext]_vars

(***************************************************************************)
(* PDFProcessor.extract_chunks on the paragraphs of a document             *)
(***************************************************************************)
\* The paragraphs the converter gives: texts one character below the
\* configured minimum, as long as it (one of them between blanks) and one
\* character above it.
CandidateParagraphs ==
    {Paragraph("w", ConfigChunkMinLength - 1),
     Paragraph("x", ConfigChunkMinLength),
     Padded("y", ConfigChunkMinLength),
     Paragraph("z", ConfigChunkMinLength + 1)}

\* extract_chunks(pdf_path) of a PDFProcessor made with min_chunk_length: the
\* converter raises, or gives the paragraphs by export_to_markdown, or, when
\* that raises, the texts of iterate_items; both loops keep the same texts.
extract_chunks(pdf_path, min_chunk_length) ==
    /\ \/ last' = [op |-> "extract_chunks", pdf_path |-> pdf_path,
                    min_chunk_length |-> min_chunk_length, raised |-> TRUE,
                    method |-> None, paragraphs |-> <<>>, ret |-> ExtractionError]
       \/ \E method \in {"markdown", "iterate_items"},
             paragraphs \in UNION {[1..n -> CandidateParagraphs] : n \in 0..MaxParagraphs} :
             last' = [op |-> "extract_chunks", pdf_path |-> pdf_path,
                      min_chunk_length |-> min_chunk_length, raised |-> FALSE,
                      method |-> method, paragraphs |-> paragraphs,
                      ret |-> ExtractedChunks(pdf_path,
                                              KeptTexts(paragraphs, min_chunk_length))]
    /\ UNCHANGED <<nodes, retryVars, rag, threads, schema>>

ExtractInit ==
    /\ nodes = <<>>
    /\ last = [op |-> "init", ret |-> None]
    /\ max_retries = ConfigMaxRetries
    /\ call = NoCall
    /\ rag = NoOperation
    /\ threads = NoThreads
    /\ schema = SchemaReady

ExtractNext ==
    \E p \in PdfPaths : extract_chunks(p, ConfigChunkMinLength)

ExtractSpec == ExtractInit /\ [][ExtractNext]_vars

(***************************************************************************)
(* VectorStore.__init__ and _setup_schema                                   *)
(***************************************************************************)
\* CREATE CONSTRAINT / CREATE VECTOR INDEX name IF NOT EXISTS
CreateIfNotExists(objects, name) ==
    IF name \in objects THEN objects ELSE objects \cup {name}

\* A _setup_schema that runs the statement of the vector index outside a try.
SetupWithoutTry(constraint_ok, index_ok) == constraint_ok /\ index_ok

\* Whether _setup_schema returns: the statement of the constraint is not in
\* a try, the one of the vector index is, its exception is printed.
SetupReturns(constraint_ok, index_ok) == constraint_ok

\* VectorStore(uri, user, password, database): the driver is made and
\* _setup_schema is run.  The database may refuse the first statement; it
\* refuses the second when it has no support for vector indexes.
VectorStore_init ==
    /\ schema.setups < MaxSetups
    /\ \E constraint_ok \in BOOLEAN :
          LET index_ok == schema.vector_support
              with_constraint == IF constraint_ok
                                 THEN CreateIfNotExists(schema.objects, "chunk_id")
                                 ELSE schema.objects
              with_index == IF constraint_ok /\ index_ok
                            THEN CreateIfNotExists(with_constraint, "chunk_embedding")
                            ELSE with_constraint
          IN  /\ schema' = [schema EXCEPT
                               !.objects = with_index,
                               !.setups = @ + 1,
                               !.constructed = SetupReturns(constraint_ok, index_ok),
                               !.index_failed = constraint_ok /\ ~index_ok]
              /\ last' = [op |-> "__init__", constraint_ok |-> constraint_ok,
                          before |-> schema.objects,
                          ret |-> None]
    /\ UNCHANGED <<nodes, retryVars, rag, threads>>

SchemaInit ==
    /\ nodes = <<>>
    /\ last = [op |-> "init", ret |-> None]
    /\ max_retries = ConfigMaxRetries
    /\ call = NoCall
    /\ rag = NoOperation
    /\ threads = NoThreads
    /\ \E support \in BOOLEAN :
          schema = [objects |-> {}, vector_support |-> support, setups |-> 0,
                    constructed |-> FALSE, index_failed |-> FALSE]

\* The calls made on a VectorStore that was constructed.
SchemaNext ==
    \/ VectorStore_init
    \/ /\ schema.constructed
       /\ \E id \in ChunkIds, te \in Embedded :
             store_chunk(id, te[1], te[2], "a.pdf", 0, Metadata(te[1]))
    \/ /\ schema.constructed
       /\ \E k \in 1..MaxK : search_similar(<<1, 1>>, k)

SchemaSpec == SchemaInit /\ [][SchemaNext]_vars

(***************************************************************************)
(* Uploads and queries at the same time: every handler of the UI runs in   *)
(* a thread of its own, on the one database.  Each store_chunk is one      *)
(* statement in a session and transaction of its own, which the database   *)
(* commits as a whole on a node whose id is under a uniqueness constraint; *)
(* the query of search_similar reads committed nodes, one after another.   *)
(***************************************************************************)
\* The uploads of the document a.pdf that run at the same time.
Writers == {1, 2}

\* What upload w has extracted and embedded when it reaches the storage
\* step: n chunks of a.pdf, the upload 2 of another content than upload 1.
WriterChunks(w, n) ==
    ExtractedChunks([stem |-> "a", name |-> "a.pdf"],
                    [i \in 1..n |-> IF w = 1
                                    THEN Paragraph("P", ConfigChunkMinLength + 1)
                                    ELSE Paragraph("R", ConfigChunkMinLength + 2)])
WriterEmbeddings(w, n) == [i \in 1..n |-> IF w = 1 THEN <<1, 0>> ELSE <<0, 1>>]

ConcInit ==
    /\ nodes = <<>>
    /\ last = [op |-> "init", ret |-> None]
    /\ max_retries = ConfigMaxRetries
    /\ call = NoCall
    /\ rag = NoOperation
    /\ \E n \in [Writers -> 1..MaxChunks] :
          threads = [writers |-> [w \in Writers |->
                                    [chunks |-> WriterChunks(w, n[w]),
                                     embeddings |-> WriterEmbeddings(w, n[w]),
                                     stored |-> 0]],
                     reader |-> [pc |-> "idle"],
                     log |-> <<>>]
    /\ schema = SchemaReady

\* One turn of the loop of store_chunks_batch in the thread of upload w: the
\* store_chunk of its next pair.
writer_store_chunk(w) ==
    LET me == threads.writers[w]
        k == me.stored + 1
    IN  /\ k <= Len(Zip(me.chunks, me.embeddings))
        /\ LET pair == Zip(me.chunks, me.embeddings)[k]
               n == Node(pair.chunk.id, pair.chunk.text, pair.chunk.source,
                         pair.chunk.chunk_index, pair.embedding, pair.chunk.metadata)
           IN  /\ nodes' = MergeNode(nodes, n)
               /\ threads' = [threads EXCEPT !.writers[w].stored = k,
                                             !.log = Append(@, n)]
        /\ UNCHANGED <<last, retryVars, rag, schema>>

\* search_similar in the thread of a query: the statement is sent.
reader_begin(query_embedding, top_k) ==
    /\ threads.reader.pc = "idle"
    /\ threads' = [threads EXCEPT !.reader =
                        [pc |-> "scan", query_embedding |-> query_embedding,
                         top_k |-> top_k, seen |-> <<>>]]
    /\ UNCHANGED <<storeVars, retryVars, rag, schema>>

\* MATCH (c:Chunk) WITH c, reduce(...) AS similarity: the next node is read.
reader_scan ==
    /\ threads.reader.pc = "scan"
    /\ Len(threads.reader.seen) < Len(nodes)
    /\ threads' = [threads EXCEPT !.reader.seen =
                        Append(@, nodes[Len(threads.reader.seen) + 1])]
    /\ UNCHANGED <<storeVars, retryVars, rag, schema>>

\* No node is left to read: the rows are ordered, cut and returned.
reader_return ==
    /\ threads.reader.pc = "scan"
    /\ Len(threads.reader.seen) = Len(nodes)
    /\ \E r \in SearchResults(threads.reader.seen, threads.reader.query_embedding,
                               threads.reader.top_k) :
          last' = [op |-> "search_similar",
                   query_embedding |-> threads.reader.query_embedding,
                   top_k |-> threads.reader.top_k, seen |-> threads.reader.seen,
                   ret |-> r]
    /\ threads' = [threads EXCEPT !.reader = [pc |-> "idle"]]
    /\ UNCHANGED <<nodes, retryVars, rag, schema>>

ConcNext ==
    \/ \E w \in Writers : writer_store_chunk(w)
    \/ \E k \in 1..MaxK : reader_begin(<<1, 1>>, k)
    \/ reader_scan
    \/ reader_return

ConcSpec == ConcInit /\ [][ConcNext]_vars

(***************************************************************************)
(* Claims about the store                                                  *)
(***************************************************************************)
NodesWithId(id) == {i \in 1..Len(nodes) : nodes[i].id = id}

\* The last pair of zip(chunks, embeddings) that names the id.
LastStoreOf(chunks, embeddings, id) ==
    LET n == Min(Len(chunks), Len(embeddings))
        i == CHOOSE i \in 1..n :
                /\ chunks[i].id = id
                /\ \A j \in (i + 1)..n : chunks[j].id # id
    IN  Node(id, chunks[i].text, chunks[i].source, chunks[i].chunk_index,
             embeddings[i], chunks[i].metadata)

\* C1: after store_chunk or store_chunks_batch, every id stored by the call has
\* exactly one record, that record carries the text, source, position and
\* vector of the latest store under the id, and a store under an id that was
\* already there leaves the chunk count as it was.
C1_IdempotentUpsert ==
    /\ last.op = "store_chunk" =>
          /\ Cardinality(NodesWithId(last.chunk.id)) = 1
          /\ \A i \in NodesWithId(last.chunk.id) :
                /\ nodes[i].text = last.chunk.text
                /\ nodes[i].source = last.chunk.source
                /\ nodes[i].chunk_index = last.chunk.chunk_index
                /\ nodes[i].embedding = last.chunk.embedding
          /\ last.existed => Len(nodes) = last.count_before
    /\ last.op = "store_chunks_batch" =>
          /\ \A k \in 1..Min(Len(last.chunks), Len(last.embeddings)) :
                /\ Cardinality(NodesWithId(last.chunks[k].id)) = 1
                /\ \A i \in NodesWithId(last.chunks[k].id) :
                      LET n == LastStoreOf(last.chunks, last.embeddings,
                                           last.chunks[k].id)
                      IN  /\ nodes[i].text = n.text
                          /\ nodes[i].source = n.source
                          /\ nodes[i].chunk_index = n.chunk_index
                          /\ nodes[i].embedding = n.embedding
          /\ Len(nodes) = last.count_before + Cardinality(last.new_ids)

\* A store_chunk under an id that held another text, beside a second chunk.
C1_Witness ==
    /\ last.op = "store_chunk"
    /\ last.existed
    /\ last.old_text # last.chunk.text
    /\ Len(nodes) = 2

\* C2: search_similar(v, k) with k >= 1 returns exactly min(k, chunk count)
\* results, the empty list on an empty store.
C2_KBounded ==
    last.op = "search_similar" =>
        /\ Len(last.ret) = Min(last.top_k, Len(nodes))
        /\ nodes = <<>> => last.ret = <<>>

\* A search whose top_k is below the chunk count.
C2_Witness ==
    /\ last.op = "search_similar"
    /\ last.top_k < Len(nodes)
    /\ Len(last.ret) = last.top_k

\* The ids of the rows a search returned.
ReturnedIds == {last.ret[i].id : i \in 1..Len(last.ret)}

\* C3: the list search_similar returns is ordered by similarity score, highest
\* first, each row carrying the score of its chunk against the query vector,
\* and no stored chunk left out scores strictly higher than a returned one.
C3_DescendingTopK ==
    last.op = "search_similar" =>
        /\ \A i, j \in 1..Len(last.ret) :
              i < j => last.ret[i].similarity >= last.ret[j].similarity
        /\ \A i \in 1..Len(last.ret) :
              /\ HasId(nodes, last.ret[i].id)
              /\ last.ret[i].similarity =
                    Similarity(nodes[NodeIndex(nodes, last.ret[i].id)].embedding,
                               last.query_embedding)
        /\ \A n \in 1..Len(nodes), i \in 1..Len(last.ret) :
              nodes[n].id \notin ReturnedIds =>
                  Similarity(nodes[n].embedding, last.query_embedding)
                      <= last.ret[i].similarity

\* A search that cut off a chunk scoring strictly lower than the one returned.
C3_Witness ==
    /\ last.op = "search_similar"
    /\ Len(last.ret) = 1
    /\ \E n \in 1..Len(nodes) :
          /\ nodes[n].id \notin ReturnedIds
          /\ Similarity(nodes[n].embedding, last.query_embedding)
                < last.ret[1].similarity

\* C4: chunks of equal similarity score come in insertion order, the one
\* inserted earlier first, also when top_k cuts between them.
C4_TiesByInsertionOrder ==
    last.op = "search_similar" =>
        /\ \A i, j \in 1..Len(last.ret) :
              (i < j /\ last.ret[i].similarity = last.ret[j].similarity) =>
                  NodeIndex(nodes, last.ret[i].id) < NodeIndex(nodes, last.ret[j].id)
        /\ \A n \in 1..Len(nodes), i \in 1..Len(last.ret) :
              (/\ nodes[n].id \notin ReturnedIds
               /\ Similarity(nodes[n].embedding, last.query_embedding)
                     = last.ret[i].similarity) =>
                  NodeIndex(nodes, last.ret[i].id) < n

(***************************************************************************)
(* Claims about the retry loops                                            *)
(***************************************************************************)
RateLimitSignal(r) == ~r.ok /\ r.status = "rate_limit"

\* C5: with max_retries = N >= 1 a generate call of either client makes at
\* most N upstream requests; a call whose requests all fail with a rate-limit
\* signal makes N of them and then fails with the rate-limit-exceeded error;
\* a request that succeeds is the call's last, and the call returns its value.
C5_BoundedRetry ==
    (call.status # "idle" /\ max_retries >= 1) =>
        /\ Len(call.responses) <= max_retries
        /\ Len(call.responses) >= 1
        /\ (\A i \in 1..Len(call.responses) : RateLimitSignal(call.responses[i])) =>
              /\ Len(call.responses) = max_retries
              /\ call.status = "raised"
              /\ call.value = RateLimitExceeded
        /\ \A i \in 1..Len(call.responses) :
              call.responses[i].ok =>
                  /\ i = Len(call.responses)
                  /\ call.status = "returned"
                  /\ call.value = call.responses[i].value

\* Three rate-limit answers in a row exhaust ResponseGenerator.generate.
C5_Witness ==
    /\ call.client = "response"
    /\ max_retries = 3
    /\ call.status = "raised"
    /\ call.value = RateLimitExceeded
    /\ Len(call.responses) = 3
    /\ \A i \in 1..3 : RateLimitSignal(call.responses[i])

\* C6: the sleep after failed attempt i (0-indexed) lasts 2^i seconds plus a
\* jitter in [0, 1): it lies in [2^i, 2^i + 1), and its base delay grows
\* strictly from one attempt to the next.  waits[i + 1] is that sleep, in
\* units of 1/JitterSteps seconds.
C6_Backoff ==
    call.status # "idle" =>
        \A i \in 1..Len(call.waits) :
            /\ (2 ^ (i - 1)) * JitterSteps <= call.waits[i]
            /\ call.waits[i] < (2 ^ (i - 1) + 1) * JitterSteps
            /\ i > 1 => (call.waits[i] \div JitterSteps)
                            > (call.waits[i - 1] \div JitterSteps)

\* A call that slept twice, the second time with a jitter above zero.
C6_Witness ==
    /\ call.status # "idle"
    /\ Len(call.waits) = 2
    /\ call.waits[2] = 2 * JitterSteps + 1

\* C7: an upstream error that is no rate-limit signal ends the call at once:
\* it is the last request of the call, no sleep follows it, and the call
\* raises that error.
C7_NoRetryOnOtherErrors ==
    call.status # "idle" =>
        \A i \in 1..Len(call.responses) :
            (~call.responses[i].ok /\ call.responses[i].status # "rate_limit") =>
                /\ i = Len(call.responses)
                /\ Len(call.waits) = i - 1
                /\ call.status = "raised"
                /\ call.value = call.responses[i]

(***************************************************************************)
(* Claims about the orchestrator                                           *)
(***************************************************************************)
Called(name) == \E i \in 1..Len(rag.trace) : rag.trace[i] = name

\* C8: a query whose similarity search returns no result never calls the
\* response generator, and returns the fallback text with the question echoed
\* and an empty source list.
C8_NoContextShortCircuit ==
    (/\ rag.op = "query"
     /\ Called("search_similar")
     /\ rag.failure # "storage"
     /\ rag.relevant_chunks = <<>>) =>
        /\ ~Called("response_generate")
        /\ rag.status = "returned"
        /\ rag.ret = [question |-> rag.question, answer |-> FallbackAnswer,
                      sources |-> <<>>]

\* A query on the empty store that came back with the fallback answer.
C8_Witness ==
    /\ rag.op = "query"
    /\ nodes = <<>>
    /\ rag.trace = <<"generate_query_embedding", "search_similar">>
    /\ rag.status = "returned"
    /\ rag.ret.answer = FallbackAnswer

\* C9: an upload whose extraction yields chunks and whose embedding calls and
\* store writes all succeed returns success with the chunk count and the
\* statistics of those chunks.
C9_SuccessSummary ==
    (/\ rag.op = "process_and_store_pdf"
     /\ rag.status # "running"
     /\ rag.chunks # <<>>
     /\ rag.stored = Len(rag.chunks)) =>
        /\ rag.status = "returned"
        /\ rag.ret.success = TRUE
        /\ rag.ret.chunks_processed = Len(rag.chunks)
        /\ rag.ret.statistics = get_chunk_statistics(rag.chunks)

\* C10: an operation that fails in an embedding call, by rate-limit
\* exhaustion, in the response generator or in the store ends by returning an
\* outcome with a success flag and a message, not by raising.
C10_StructuredFailure ==
    (/\ rag.status \in {"returned", "raised"}
     /\ rag.failure \in {"embedding", "rate_limit", "generation", "storage"}) =>
        /\ rag.status = "returned"
        /\ rag.ret.success = FALSE
        /\ "message" \in DOMAIN rag.ret

\* Calls of the component, in the trace of the running or last operation.
Calls(name) == {i \in 1..Len(rag.trace) : rag.trace[i] = name}

\* C11: when extract_chunks yields a list with no element,
\* process_and_store_pdf returns without raising the failure outcome
\* (success false, a message, 0 chunks processed), having made no embedding
\* call and no store write.
C11_EmptyChunkList ==
    (/\ rag.op = "process_and_store_pdf"
     /\ rag.chunks = <<>>
     /\ rag.failure # "extraction") =>
        /\ rag.status = "returned"
        /\ rag.ret.success = FALSE
        /\ rag.ret.message = "No chunks extracted from PDF"
        /\ rag.ret.chunks_processed = 0
        /\ Calls("generate_document_embedding") = {}
        /\ Calls("store_chunk") = {}
        /\ rag.stored = 0

\* An upload that yields no chunk, on a store that holds chunks already.
C11_Witness ==
    /\ rag.op = "process_and_store_pdf"
    /\ rag.status = "returned"
    /\ rag.chunks = <<>>
    /\ rag.ret.success = FALSE
    /\ Len(nodes) >= 1

\* The fields of an outcome that carry a count of chunks.
CountFields == {"chunks_processed", "chunks_embedded", "chunks_stored"}

\* C12: when the embedding call for a chunk of a document fails,
\* process_and_store_pdf makes no embedding call for a later chunk and no
\* store write, and the outcome it reports states how many chunks were
\* embedded before the failure.
C12_EmbeddingFailureProgress ==
    (/\ rag.op = "process_and_store_pdf"
     /\ rag.status = "raised"
     /\ rag.failure \in {"embedding", "rate_limit"}) =>
        /\ Cardinality(Calls("generate_document_embedding")) = Len(rag.embeddings) + 1
        /\ Calls("store_chunk") = {}
        /\ \E f \in DOMAIN rag.ret \cap CountFields : rag.ret[f] = Len(rag.embeddings)

\* C13: when store_chunks_batch fails to persist the item at position j, the
\* error reported to the caller carries the count j of the items persisted
\* so far, and these j items remain in the store.
C13_BatchPartialFailure ==
    (/\ rag.op = "process_and_store_pdf"
     /\ rag.status = "raised"
     /\ rag.failure = "storage") =>
        /\ \A k \in 1..rag.stored :
              /\ HasId(nodes, rag.chunks[k].id)
              /\ nodes[NodeIndex(nodes, rag.chunks[k].id)].text = rag.chunks[k].text
              /\ nodes[NodeIndex(nodes, rag.chunks[k].id)].embedding = rag.embeddings[k]
        /\ \E f \in DOMAIN rag.ret \cap CountFields : rag.ret[f] = rag.stored

(***************************************************************************)
(* Claims about delete_by_source                                           *)
(***************************************************************************)
\* The places of the chunks of the source in the store ns.
OfSource(ns, source) == {i \in 1..Len(ns) : ns[i].source = source}

\* C14: delete_by_source(source) returns the number of chunks it removed,
\* the number of stored chunks that had the source before the call, which is
\* 0 for a source with no stored chunk.
C14_DeleteReturnsCount ==
    last.op = "delete_by_source" =>
        /\ last.ret # None
        /\ last.ret = Cardinality(OfSource(last.before, last.source))

\* C15: after delete_by_source(s) no stored chunk has source s, the chunks
\* of the other sources are there unchanged, get_chunk_count gives the
\* previous count less the number of chunks that had source s, and a
\* source with no stored chunk leaves the store as it was.
C15_DeleteEffect ==
    last.op = "delete_by_source" =>
        /\ OfSource(nodes, last.source) = {}
        /\ \A i \in 1..Len(last.before) :
              last.before[i].source # last.source =>
                  \E j \in 1..Len(nodes) : nodes[j] = last.before[i]
        /\ get_chunk_count(nodes) = get_chunk_count(last.before)
                                        - Cardinality(OfSource(last.before, last.source))
        /\ OfSource(last.before, last.source) = {} => nodes = last.before

\* A delete on a store that held a chunk of the source, which is gone, and
\* a chunk of another source, which is left.
C15_Witness ==
    /\ last.op = "delete_by_source"
    /\ Cardinality(OfSource(last.before, last.source)) = 1
    /\ Len(last.before) = 2
    /\ nodes = <<last.before[2]>>

(***************************************************************************)
(* Claims about the validation of a query                                  *)
(***************************************************************************)
WhitespaceOnly(question) == \A i \in 1..Len(question) : question[i] = " "

\* C16: a query whose question is empty or has blanks only is rejected with
\* a validation error at once: no embedding call, no similarity search and
\* no call of the response generator is made for it.
C16_QuestionValidation ==
    (rag.op \in {"query", "query_rag_system"} /\ WhitespaceOnly(rag.question)) =>
        /\ Calls("generate_query_embedding") = {}
        /\ Calls("search_similar") = {}
        /\ Calls("response_generate") = {}
        /\ rag.status # "running" => rag.failure = "validation"

\* C17: query uses the configured default when top_k is not given; a top_k
\* that is not positive is rejected with a validation error before any
\* embedding call or search; a top_k above the number of stored chunks is
\* not rejected, the search then yields every stored chunk.
C17_TopKHandling ==
    rag.op = "query" =>
        /\ rag.top_k_arg = <<>> => rag.top_k = ConfigTopK
        /\ (rag.top_k_arg # <<>> /\ rag.top_k_arg[1] <= 0) =>
              /\ Calls("generate_query_embedding") = {}
              /\ Calls("search_similar") = {}
              /\ rag.status # "running" => rag.failure = "validation"
        /\ (/\ rag.top_k >= 1
            /\ rag.top_k > Len(nodes)
            /\ Calls("search_similar") # {}
            /\ rag.failure # "storage") =>
              /\ rag.failure # "validation"
              /\ \/ Len(rag.relevant_chunks) = Len(nodes)
                 \/ nodes = <<>>

(***************************************************************************)
(* Claims about what an ingestion stores                                   *)
(***************************************************************************)
\* C19: in an ingestion that reaches the storage step, as many vectors as
\* chunks are handed to store_chunks_batch, and every chunk written is stored
\* with the vector the embedding client returned for the request made with
\* the text of that chunk.
C19_EmbeddingChunkAssociation ==
    (/\ rag.op = "process_and_store_pdf"
     /\ Calls("store_chunk") # {} \/ Running("process_and_store_pdf", "store")) =>
        /\ Len(rag.embeddings) = Len(rag.chunks)
        /\ \A k \in 1..rag.stored :
              /\ rag.requests[k] = rag.chunks[k].text
              /\ HasId(nodes, rag.chunks[k].id)
              /\ nodes[NodeIndex(nodes, rag.chunks[k].id)].text = rag.chunks[k].text
              /\ nodes[NodeIndex(nodes, rag.chunks[k].id)].embedding = rag.embeddings[k]

\* Two chunks stored, for which the client returned different vectors.
C19_Witness ==
    /\ rag.op = "process_and_store_pdf"
    /\ rag.stored = 2
    /\ rag.embeddings[1] # rag.embeddings[2]
    /\ rag.chunks[1].text # rag.chunks[2].text

(***************************************************************************)
(* Claims about the context and the prompt                                 *)
(***************************************************************************)
\* The pieces of a context that make its i-th block.
BlockOf(context, i) == SubSeq(context, 10 * (i - 1) + 1, 10 * (i - 1) + 9)

\* C20: _build_context returns the sentinel "No relevant context found."
\* for no result; otherwise it renders one labeled block per result, in
\* ranking order, the i-th block carrying the rank i and the source name,
\* position and raw text of the i-th result; the prompt built from it embeds
\* that context and the question.
C20_ContextAssembly ==
    (call.status # "idle" /\ call.client = "response") =>
        LET n == Len(call.context_chunks)
        IN  /\ n = 0 => call.context = <<"No relevant context found.">>
            /\ n > 0 =>
                  /\ Len(call.context) = 10 * n - 1
                  /\ \A i \in 1..n :
                        LET block == BlockOf(call.context, i)
                            chunk == call.context_chunks[i]
                        IN  /\ block[1] = "[Context "
                            /\ block[2] = ToString(i)
                            /\ block[3] = " - Source: "
                            /\ block[4] = chunk.source
                            /\ block[5] = ", Chunk "
                            /\ block[6] = ToString(chunk.chunk_index)
                            /\ block[8] = Text(chunk.text)
                  /\ \A i \in 1..(n - 1) : call.context[10 * i] = "\n"
            /\ \E i \in 1..Len(call.prompt) :
                  /\ SubSeq(call.prompt, i, i + Len(call.context) - 1) = call.context
                  /\ \E j \in (i + Len(call.context))..Len(call.prompt) :
                        /\ call.prompt[j - 1] = "\n\nUser Question: "
                        /\ call.prompt[j] = Text(call.query)

\* A context of two blocks, of different sources.
C20_Witness ==
    /\ call.status = "returned"
    /\ call.client = "response"
    /\ Len(call.context_chunks) = 2
    /\ call.context_chunks[1].source # call.context_chunks[2].source
    /\ Len(call.context) = 19

(***************************************************************************)
(* Claims about uploads and queries at the same time                       *)
(***************************************************************************)
\* The last write to the id, of those committed.
LastWrite(id) ==
    threads.log[CHOOSE i \in 1..Len(threads.log) :
                    /\ threads.log[i].id = id
                    /\ \A j \in (i + 1)..Len(threads.log) : threads.log[j].id # id]

\* The node is, field by field, the one some committed write stored.
IsCommittedVersion(n) ==
    \E i \in 1..Len(threads.log) :
        /\ threads.log[i].id = n.id
        /\ threads.log[i].text = n.text
        /\ threads.log[i].source = n.source
        /\ threads.log[i].chunk_index = n.chunk_index
        /\ threads.log[i].embedding = n.embedding

Listed(l, name) == {i \in 1..Len(l) : l[i] = name}

\* C21: get_all_sources returns every source name that has a stored chunk
\* exactly once and no other name, the names in lexicographic order; after
\* delete_by_source(s) the name s is not listed.
C21_ListSources ==
    /\ last.op = "get_all_sources" =>
          /\ \A s \in Sources :
                Cardinality(Listed(last.ret, s)) =
                    IF OfSource(nodes, s) # {} THEN 1 ELSE 0
          /\ \A i \in 1..Len(last.ret) : last.ret[i] \in Sources
          /\ \A i, j \in 1..Len(last.ret) :
                i < j => LexLess(SourceChars[last.ret[i]], SourceChars[last.ret[j]])
    /\ last.op = "delete_by_source" => Listed(AllSources(nodes), last.source) = {}

\* A listing of two names on a store whose first chunk is of b.pdf.
C21_Witness ==
    /\ last.op = "get_all_sources"
    /\ last.ret = <<"a.pdf", "b.pdf">>
    /\ nodes[1].source = "b.pdf"

(***************************************************************************)
(* Claims about the schema                                                 *)
(***************************************************************************)
\* The schema _setup_schema leaves on a database, with and without support
\* for vector indexes.
SchemaOf(support) ==
    IF support THEN {"chunk_id", "chunk_embedding"} ELSE {"chunk_id"}

\* C22: _setup_schema gives the same schema however many times it is run,
\* and a failure to create the vector index does not fail the construction
\* of VectorStore: store and search stay available, the search scanning
\* every chunk.
C22_SchemaSetup ==
    /\ (last.op = "__init__" /\ last.constraint_ok) =>
          /\ schema.objects = SchemaOf(schema.vector_support)
          /\ "chunk_id" \in last.before => schema.objects = last.before
    /\ schema.index_failed => schema.constructed
    /\ (schema.setups >= 1 /\ "chunk_embedding" \notin schema.objects) =>
          /\ last.op = "store_chunk" => HasId(nodes, last.chunk.id)
          /\ last.op = "search_similar" => Len(last.ret) = Min(last.top_k, Len(nodes))

\* A search that finds a chunk, stored on a database that has refused the
\* vector index twice.
C22_Witness ==
    /\ schema.index_failed
    /\ schema.setups = 2
    /\ last.op = "search_similar"
    /\ Len(last.ret) >= 1

(***************************************************************************)
(* Claims about the extraction                                             *)
(***************************************************************************)
\* The stripped paragraphs of at least the minimum length, in their order.
RECURSIVE LongEnough(_, _)
LongEnough(paragraphs, minimum) ==
    IF paragraphs = <<>> THEN <<>>
    ELSE (IF Len(Strip(Head(paragraphs))) >= minimum /\ Strip(Head(paragraphs)) # <<>>
          THEN <<Strip(Head(paragraphs))>> ELSE <<>>)
         \o LongEnough(Tail(paragraphs), minimum)

\* C23: every chunk extract_chunks produces has a text that is not empty and
\* at least as long as the configured minimum, and a candidate text is
\* rejected exactly when its stripped length is below the minimum: a text
\* as long as the minimum is a chunk.
C23_MinimumChunkLength ==
    (last.op = "extract_chunks" /\ ~last.raised) =>
        /\ \A i \in 1..Len(last.ret) :
              /\ last.ret[i].text # <<>>
              /\ Len(last.ret[i].text) >= last.min_chunk_length
        /\ [i \in 1..Len(last.ret) |-> last.ret[i].text]
              = LongEnough(last.paragraphs, last.min_chunk_length)

(***************************************************************************)
(* Claims about the order of the steps                                     *)
(***************************************************************************)
QuerySteps == <<"generate_query_embedding", "search_similar", "response_generate">>

\* C24: a run of query goes through the embedding of the question, the
\* similarity search and the response generator in this order, each entered
\* at most once: the search is issued only after the embedding call has
\* returned a vector, the response generator is called only after the search
\* has returned a result that is not empty, and after a failure in a step no
\* later step is executed.
C24_QueryStepOrder ==
    rag.op = "query" =>
        /\ Len(rag.trace) <= 3
        /\ rag.trace = SubSeq(QuerySteps, 1, Len(rag.trace))
        /\ Calls("search_similar") # {} =>
              /\ rag.pc # "embed"
              /\ rag.query_embedding \in Vectors
        /\ Calls("response_generate") # {} =>
              /\ rag.pc = "generate"
              /\ rag.relevant_chunks # <<>>
        /\ rag.status = "raised" =>
              rag.trace = SubSeq(QuerySteps, 1,
                                 CASE rag.pc = "embed" -> 1
                                   [] rag.pc = "search" -> 2
                                   [] rag.pc = "generate" -> 3)
        /\ rag.status = "returned" =>
              \/ Len(rag.trace) = 3
              \/ Len(rag.trace) = 2 /\ rag.relevant_chunks = <<>>

\* A query whose search failed after the question was embedded.
C24_Witness ==
    /\ rag.op = "query"
    /\ rag.status = "raised"
    /\ rag.failure = "storage"
    /\ rag.trace = <<"generate_query_embedding", "search_similar">>

\* The trace of an ingestion that made e embedding calls and s store writes.
IngestTrace(e, s) ==
    <<"extract_chunks">> \o [i \in 1..e |-> "generate_document_embedding"]
                         \o [i \in 1..s |-> "store_chunk"]

\* C25: in process_and_store_pdf the first store write comes only after the
\* embedding calls for all chunks of the document have succeeded, one call
\* per chunk in chunk order; when an embedding call fails the store is left
\* as it was when the ingestion started.
C25_IngestStepOrder ==
    rag.op = "process_and_store_pdf" =>
        /\ rag.trace = IngestTrace(Cardinality(Calls("generate_document_embedding")),
                                   Cardinality(Calls("store_chunk")))
        /\ \A i \in 1..Len(rag.requests) : rag.requests[i] = rag.chunks[i].text
        /\ Calls("store_chunk") # {} =>
              /\ Len(rag.embeddings) = Len(rag.chunks)
              /\ Cardinality(Calls("generate_document_embedding")) = Len(rag.chunks)
        /\ Calls("store_chunk") = {} => nodes = rag.nodes_before
        /\ (rag.status = "raised" /\ rag.failure \in {"embedding", "rate_limit"}) =>
              nodes = rag.nodes_before

\* An upload on a store that holds chunks, whose second embedding call ran
\* out of retries.
C25_Witness ==
    /\ rag.op = "process_and_store_pdf"
    /\ rag.status = "raised"
    /\ rag.failure = "rate_limit"
    /\ Len(rag.embeddings) = 1
    /\ Len(nodes) >= 1

(***************************************************************************)
(* Claims about a whole ingestion followed by a query                      *)
(***************************************************************************)
\* A query whose search_similar has returned its rows.
Searched ==
    /\ rag.op = "query"
    /\ Len(rag.trace) >= 2
    /\ ~(rag.status = "raised" /\ rag.pc = "search")

\* The one-row result that is the stored chunk n with similarity 1.
OnlyRowOf(n) ==
    <<[id |-> n.id, text |-> n.text, source |-> n.source,
       chunk_index |-> n.chunk_index, similarity |-> 1]>>

\* The stored chunks other than the i-th whose vector is v as well.
SameVector(i, v) ==
    {j \in 1..Len(nodes) : j # i /\ nodes[j].embedding = v}

ReadOperations == {"query", "query_rag_system", "get_database_info"}

\* The fields of a query that has just started.
QueryFields ==
    {"op", "status", "pc", "handler", "question", "top_k_arg", "top_k",
     "query_embedding", "relevant_chunks", "failure", "ret", "trace"}

\* C27: every step of query (its embedding, its search_similar, its answer,
\* its fallback answer, its failure in any step) and get_database_info with
\* its get_chunk_count and get_all_sources leave the stored chunks and all
\* their fields as they were, and the clients and the schema too; a query
\* starts with no vector, no retrieved chunk, no failure and no result,
\* whatever operation ran before it.
C27_QueriesReadOnly ==
    [][/\ rag'.op \in ReadOperations =>
             /\ nodes' = nodes
             /\ max_retries' = max_retries
             /\ schema' = schema
       /\ (rag.status # "running" /\ rag'.op = "query") =>
             /\ DOMAIN rag' = QueryFields
             /\ rag'.status = "running"
             /\ rag'.pc = "embed"
             /\ rag'.query_embedding = None
             /\ rag'.relevant_chunks = <<>>
             /\ rag'.failure = None
             /\ rag'.ret = None
             /\ rag'.trace = <<>>]_vars

\* A query that failed in the response generator, after it retrieved both
\* chunks of the store.
C27_Witness ==
    /\ rag.op = "query"
    /\ rag.status = "raised"
    /\ rag.failure = "generation"
    /\ Len(rag.relevant_chunks) = 2
    /\ Len(nodes) = 2

(***************************************************************************)
(* Claims about ingesting a document again                                 *)
(***************************************************************************)
\* The chunks an ingestion found in the store under its source at positions
\* its own chunk list does not reach.
Leftover(r) ==
    {r.nodes_before[i] : i \in {i \in 1..Len(r.nodes_before) :
        /\ r.nodes_before[i].source = r.pdf_path.name
        /\ r.nodes_before[i].chunk_index >= Len(r.chunks)}}

\* The store ns holds the chunk n, counts it and returns it from a search
\* for any vector that asks for all rows.
StillServed(ns, n) ==
    /\ \E j \in 1..Len(ns) : ns[j] = n
    /\ get_chunk_count(ns) >= 1
    /\ \A q \in Queries :
          \A found \in SearchResults(ns, q, Len(ns)) :
              \E k \in 1..Len(found) : found[k] = Row(n, q)

\* C28: an ingestion removes no chunk id from the store and does not lower
\* get_chunk_count; through every step of an ingestion of a source that had
\* n chunks and now has m < n, and after it, the chunks of the earlier
\* ingestion at positions m..n-1 are in the store under that source as they
\* were, counted by get_chunk_count and returned by search_similar.
C28_ReingestionKeepsChunks ==
    rag.op = "process_and_store_pdf" =>
        /\ \A i \in 1..Len(rag.nodes_before) : HasId(nodes, rag.nodes_before[i].id)
        /\ get_chunk_count(nodes) >= get_chunk_count(rag.nodes_before)
        /\ \A n \in Leftover(rag) : StillServed(nodes, n)

\* The second ingestion of a.pdf has stored its only chunk; the chunk at
\* position 1 of the first ingestion is still in the store.
C28_Witness ==
    /\ rag.op = "process_and_store_pdf"
    /\ Len(rag.nodes_before) = 2
    /\ Len(rag.chunks) = 1
    /\ rag.stored = 1
    /\ Cardinality(Leftover(rag)) = 1
    /\ Len(nodes) = 2
    /\ nodes[1].embedding = rag.embeddings[1]
    /\ nodes[1].text = rag.chunks[1].text

(***************************************************************************)
(* Claims about a client constructed with no attempt                       *)
(***************************************************************************)
\* C29: with max_retries 0 or negative a generate call of either client
\* makes no upstream request, does not sleep and raises nothing; it returns,
\* and what it returns is None, not a vector or an answer text.
C29_ZeroAttemptBudget ==
    (call.status # "idle" /\ max_retries <= 0) =>
        /\ call.responses = <<>>
        /\ call.waits = <<>>
        /\ call.status = "returned"
        /\ call.value = None

\* The response generator with max_retries = 0 has returned None for a
\* question with retrieved chunks, its prompt built.
C29_Witness ==
    /\ max_retries = 0
    /\ call.client = "response"
    /\ call.status = "returned"
    /\ call.responses = <<>>
    /\ call.context_chunks # <<>>
    /\ call.value = None

====
